---- MODULE Spec2Model ----
(***************************************************************************)
(* A model of std.List (src/ts/src/std/List.ts): the doubly linked node    *)
(* store with its sentinel, its begin_/end_/size_ fields and the sequence  *)
(* algorithms built on insert and erase.                                   *)
(*                                                                         *)
(* The heap of ListIterator nodes is the function `node`; two List objects *)
(* (1 and 2) live in `list`.  Every method of List is an operator that     *)
(* maps a machine state st = [node, list, alloc, err, ret] to the machine  *)
(* state the method leaves behind; a thrown exception is st.err, and every *)
(* statement after a throw is skipped.                                     *)
(*                                                                         *)
(* Beside the lists stand the keyed containers: an AtomicTree of values    *)
(* (`at`, src/ts/std/base/tree/AtomicTree.ts) and a TreeMap (`tm`,         *)
(* src/ts/std/TreeMap.ts), each a record of the object's fields with the   *)
(* last call made on it; and an UnorderedMultiMap (`um`,                   *)
(* src/src/std/base/iterators/SetIterator.ts) with its buckets.            *)
(***************************************************************************)
EXTENDS Integers, Sequences, FiniteSets, TLC

\* ------------------------------------------------------------------ bounds
MaxNodes == 8       \* ListIterator objects ever constructed
MaxCalls == 2       \* method calls made after the two constructors
MaxVal == 3         \* element values are 1..MaxVal
MaxInitLen == 2     \* length of the array given to the constructor of list 1
MaxFill == 2        \* the count n given to insert(position, n, val), assign(n, val), new List(n, val)
MaxKey == 3         \* the keys of a TreeMap are 1..MaxKey
MaxMapped == 2      \* the mapped values of a TreeMap are 1..MaxMapped
MaxTreeVal == 4     \* the values of an AtomicTree are 1..MaxTreeVal
MaxInserts == 4     \* elements ever inserted into the UnorderedMultiMap
MaxBatch == 2       \* length of the range given to insert(begin, end)
MaxMinSize == 3     \* base.Hash.MIN_SIZE is one of 1..MaxMinSize
MaxRatio == 2       \* base.Hash.RATIO is one of 1..MaxRatio
MaxStack == 3       \* frames of reconstructHashGroup the call stack holds
MaxPops == 3        \* pop_front() and pop_back() calls made in a row
MaxAdvance == 2     \* it.advance(n) is called with n in -MaxAdvance..MaxAdvance

null == 0
Lists == {1, 2}
Vals == 1 .. MaxVal
NodeIds == 1 .. MaxNodes

Keys == 1 .. MaxKey
Mapped == 1 .. MaxMapped
TreeVals == 1 .. MaxTreeVal

VARIABLES node, list, alloc, err, ret, call, pre, calls, at, tm, um

vars == <<node, list, alloc, err, ret, call, pre, calls, at, tm, um>>

\* ------------------------------------------------------- ListIterator heap
\* A ListIterator that has not been constructed yet.
NoNode == [source |-> null, prev |-> null, next |-> null, value |-> null]

Raise(st, e) == IF st.err # "none" THEN st ELSE [st EXCEPT !.err = e]

\* new ListIterator(source, prev, next, value); st.ret is the new object.
\* err = "bound" marks a construction beyond the modelled heap.
NewIterator(st, source, prev, next, value) ==
    IF st.err # "none" THEN st
    ELSE IF st.alloc >= MaxNodes THEN Raise(st, "bound")
    ELSE LET id == st.alloc + 1 IN
         [st EXCEPT !.node[id] = [source |-> source, prev |-> prev,
                                  next |-> next, value |-> value],
                    !.alloc = id,
                    !.ret = id]

\* it.setPrev(p); a null receiver is a TypeError.
setPrev(st, it, p) ==
    IF st.err # "none" THEN st
    ELSE IF it = null THEN Raise(st, "TypeError")
    ELSE [st EXCEPT !.node[it].prev = p]

\* it.setNext(n); a null receiver is a TypeError.
setNext(st, it, n) ==
    IF st.err # "none" THEN st
    ELSE IF it = null THEN Raise(st, "TypeError")
    ELSE [st EXCEPT !.node[it].next = n]

\* a.equals(b) for two non-null handles: the same store and the same node.
IterEquals(st, a, b) == a = b /\ st.node[a].source = st.node[b].source

\* container.empty()
empty(st, l) == st.list[l].size_ = 0

\* ------------------------------------------------------------ List methods
\* clear(): a fresh sentinel linked to itself.
clear(st, l) ==
    LET s1 == NewIterator(st, l, null, null, null)
        it == s1.ret
        s2 == setNext(setPrev(s1, it, it), it, it)
    IN IF s2.err # "none" THEN s2
       ELSE [s2 EXCEPT !.list[l] = [begin_ |-> it, end_ |-> it, size_ |-> 0]]

\* push_back(val)
push_back(st, l, val) ==
    IF st.err # "none" THEN st
    ELSE IF st.list[l].end_ = null THEN Raise(st, "TypeError")
    ELSE
    LET end0 == st.list[l].end_
        prev == st.node[end0].prev
        s1 == NewIterator(st, l, prev, end0, val)
        item == s1.ret
        s2 == setPrev(setNext(s1, prev, item), end0, item)
        s3 == IF s2.err = "none" /\ empty(s2, l)
              THEN setPrev([s2 EXCEPT !.list[l].begin_ = item], item, end0)
              ELSE s2
    IN IF s3.err # "none" THEN s3
       ELSE [s3 EXCEPT !.list[l].size_ = @ + 1]

\* push_front(val)
push_front(st, l, val) ==
    IF st.err # "none" THEN st
    ELSE
    LET s1 == NewIterator(st, l, null, st.list[l].begin_, val)
        item == s1.ret
        s2 == setPrev(s1, s1.list[l].begin_, item)
        s3 == IF s2.err # "none" THEN s2
              ELSE IF s2.list[l].size_ = 0
              THEN LET a == NewIterator(s2, l, item, item, null)
                       b == IF a.err # "none" THEN a
                            ELSE [a EXCEPT !.list[l].end_ = a.ret]
                   IN setNext(b, item, b.list[l].end_)
              ELSE setNext(s2, s2.list[l].end_, item)
    IN IF s3.err # "none" THEN s3
       ELSE [s3 EXCEPT !.list[l].begin_ = item, !.list[l].size_ = @ + 1]

\* push(...items): push_back of each item in turn.
RECURSIVE push(_, _, _)
push(st, l, items) ==
    IF items = <<>> THEN st
    ELSE push(push_back(st, l, Head(items)), l, Tail(items))

\* new List(items): the array constructor.
ListFromArray(st, l, items) == push(clear(st, l), l, items)

\* ------------------------------------------------------------------ insert
\* The for loop of insertByRepeatingVal: constructs `size` items after prev.
\* The result carries the machine state and the loop's locals.
RECURSIVE RepeatingLoop(_, _, _, _, _, _, _)
RepeatingLoop(st, l, prev, first, i, size, val) ==
    IF st.err # "none" \/ i >= size
    THEN [st |-> st, prev |-> prev, first |-> first]
    ELSE LET s1 == NewIterator(st, l, prev, null, val)
             item == s1.ret
             s2 == setNext(s1, prev, item)
         IN RepeatingLoop(s2, l, item, IF i = 0 THEN item ELSE first,
                          i + 1, size, val)

\* insertByRepeatingVal(position, size, val)
insertByRepeatingVal(st, l, position, size, val) ==
    IF st.err # "none" THEN st
    ELSE IF position = null THEN Raise(st, "TypeError")
    ELSE IF l # st.node[position].source THEN Raise(st, "InvalidArgument")
    ELSE
    LET lp == RepeatingLoop(st, l, st.node[position].prev, null, 0, size, val)
        s1 == lp.st
        first == lp.first
        \* this.empty() == true || first.prev().equals(this.end()) == true
        s2 == IF s1.err # "none" THEN s1
              ELSE IF empty(s1, l) THEN [s1 EXCEPT !.list[l].begin_ = first]
              ELSE IF first = null THEN Raise(s1, "TypeError")
              ELSE IF s1.node[first].prev = null THEN Raise(s1, "TypeError")
              ELSE IF IterEquals(s1, s1.node[first].prev, s1.list[l].end_)
              THEN [s1 EXCEPT !.list[l].begin_ = first]
              ELSE s1
        s3 == setPrev(setNext(s2, lp.prev, position), position, lp.prev)
    IN IF s3.err # "none" THEN s3
       ELSE [s3 EXCEPT !.list[l].size_ = @ + size, !.ret = first]

\* insert_by_val(position, val)
insert_by_val(st, l, position, val) ==
    insertByRepeatingVal(st, l, position, 1, val)

\* The for loop of insert_by_range.  `it` runs over the source range by
\* next() while the loop links the new items into the heap it is reading.
\* base is the heap size on entry: an `it` above base is an item that this
\* very call constructed, whose next() is always a still newer item, and
\* more than base steps over older nodes revisit one; either way the loop
\* never reaches `end`.
RECURSIVE RangeLoop(_, _, _, _, _, _, _, _)
RangeLoop(st, l, prev, first, size, it, end, base) ==
    IF st.err # "none" THEN [st |-> st, prev |-> prev, first |-> first, size |-> size]
    ELSE IF it = null \/ end = null
    THEN [st |-> Raise(st, "TypeError"), prev |-> prev, first |-> first, size |-> size]
    ELSE IF IterEquals(st, it, end)
    THEN [st |-> st, prev |-> prev, first |-> first, size |-> size]
    ELSE IF it > base \/ size > base
    THEN [st |-> Raise(st, "hang"), prev |-> prev, first |-> first, size |-> size]
    ELSE LET s1 == NewIterator(st, l, prev, null, st.node[it].value)
             item == s1.ret
             s2 == IF prev # null THEN setNext(s1, prev, item) ELSE s1
         IN IF s2.err # "none"
            THEN [st |-> s2, prev |-> prev, first |-> first, size |-> size]
            ELSE RangeLoop(s2, l, item, IF size = 0 THEN item ELSE first,
                           size + 1, s2.node[it].next, end, base)

\* insert_by_range(position, begin, end)
insert_by_range(st, l, position, begin, end) ==
    IF st.err # "none" THEN st
    ELSE IF position = null THEN Raise(st, "TypeError")
    ELSE IF l # st.node[position].source THEN Raise(st, "InvalidArgument")
    ELSE
    LET lp == RangeLoop(st, l, st.node[position].prev, null, 0, begin, end, st.alloc)
        s1 == lp.st
        s2 == IF s1.err = "none" /\ empty(s1, l)
              THEN [s1 EXCEPT !.list[l].begin_ = lp.first]
              ELSE s1
        s3 == setPrev(setNext(s2, lp.prev, position), position, lp.prev)
    IN IF s3.err # "none" THEN s3
       ELSE [s3 EXCEPT !.list[l].size_ = @ + lp.size, !.ret = lp.first]

\* ------------------------------------------------------------------- erase
\* The counting loop of erase_by_range: the number of next() steps from `it`
\* to `end`.  More steps than the heap has nodes revisit a node, and the
\* loop then never ends.
RECURSIVE RangeSize(_, _, _, _)
RangeSize(st, it, end, size) ==
    IF it = null \/ end = null THEN [size |-> size, err |-> "TypeError"]
    ELSE IF IterEquals(st, it, end) THEN [size |-> size, err |-> "none"]
    ELSE IF size >= st.alloc THEN [size |-> size, err |-> "hang"]
    ELSE RangeSize(st, st.node[it].next, end, size + 1)

\* erase_by_range as it would be without the test of its first line.
erase_by_range_unchecked(st, l, begin, end) ==
    IF st.err # "none" THEN st
    ELSE IF begin = null \/ end = null THEN Raise(st, "TypeError")
    ELSE
    LET prev == st.node[begin].prev
        cnt == RangeSize(st, begin, end, 0)
        s1 == IF cnt.err # "none" THEN Raise(st, cnt.err) ELSE st
        s2 == setPrev(setNext(s1, prev, end), end, prev)
    IN IF s2.err # "none" THEN s2
       ELSE LET s3 == [s2 EXCEPT !.list[l].size_ = @ - cnt.size, !.ret = end]
            IN IF s3.list[l].size_ = 0
               THEN [s3 EXCEPT !.list[l].begin_ = end]
               ELSE s3

\* erase_by_range(begin, end)
erase_by_range(st, l, begin, end) ==
    IF st.err # "none" THEN st
    ELSE IF begin = null THEN Raise(st, "TypeError")
    ELSE IF l # st.node[begin].source THEN Raise(st, "InvalidArgument")
    ELSE IF end = null THEN Raise(st, "TypeError")
    ELSE IF st.node[begin].source # st.node[end].source THEN Raise(st, "InvalidArgument")
    ELSE
    LET prev == st.node[begin].prev
        cnt == RangeSize(st, begin, end, 0)
        s1 == IF cnt.err # "none" THEN Raise(st, cnt.err) ELSE st
        s2 == setPrev(setNext(s1, prev, end), end, prev)
    IN IF s2.err # "none" THEN s2
       ELSE LET s3 == [s2 EXCEPT !.list[l].size_ = @ - cnt.size, !.ret = end]
            IN IF s3.list[l].size_ = 0
               THEN [s3 EXCEPT !.list[l].begin_ = end]
               ELSE s3

\* erase_by_iterator(it)
erase_by_iterator(st, l, it) ==
    IF st.err # "none" THEN st
    ELSE IF it = null THEN Raise(st, "TypeError")
    ELSE erase_by_range(st, l, it, st.node[it].next)

\* pop_front()
pop_front(st, l) == erase_by_iterator(st, l, st.list[l].begin_)

\* pop_back()
pop_back(st, l) ==
    IF st.list[l].end_ = null THEN Raise(st, "TypeError")
    ELSE erase_by_iterator(st, l, st.node[st.list[l].end_].prev)

\* ------------------------------------------------ user-supplied strategies
\* The predicates handed to remove_if.
Preds == {"odd", "big"}
pred(p, v) == IF p = "odd" THEN v % 2 = 1 ELSE v > 1

\* The comparators handed to merge: std.less, and an ordering by v \div 2
\* under which distinct values can be equivalent.
Compares == {"less", "half"}
compare(c, x, y) == IF c = "less" THEN x < y ELSE (x \div 2) < (y \div 2)

\* ------------------------------------------------------ remove / remove_if
\* The while loop shared by remove (sel = "val") and remove_if (sel = a
\* predicate).  idle counts the steps since the last erase: more idle steps
\* than the heap has nodes walk a cycle that does not hold end(), for ever.
\* fuel bounds the recursion of the model; it is never used up by a loop
\* that ends.
RECURSIVE RemoveLoop(_, _, _, _, _, _, _)
RemoveLoop(st, l, it, sel, val, idle, fuel) ==
    IF st.err # "none" THEN st
    ELSE IF it = null \/ st.list[l].end_ = null THEN Raise(st, "TypeError")
    ELSE IF IterEquals(st, it, st.list[l].end_) THEN st
    ELSE IF idle > st.alloc THEN Raise(st, "hang")
    ELSE IF fuel = 0 THEN Raise(st, "bound")
    ELSE IF (IF sel = "val" THEN st.node[it].value = val
                            ELSE pred(sel, st.node[it].value))
         THEN LET s1 == erase_by_iterator(st, l, it)
              IN RemoveLoop(s1, l, s1.ret, sel, val, 0, fuel - 1)
         ELSE RemoveLoop(st, l, st.node[it].next, sel, val, idle + 1, fuel - 1)

\* remove(val)
remove(st, l, val) ==
    RemoveLoop(st, l, st.list[l].begin_, "val", val, 0, 4 * MaxNodes)

\* remove_if(pred)
remove_if(st, l, p) ==
    RemoveLoop(st, l, st.list[l].begin_, p, null, 0, 4 * MaxNodes)

\* ---------------------------------------------------------- splice / merge
\* splice(position, obj, begin, end) with null for an argument left out.
\* this.insert(position, begin, end) has three arguments of which the second
\* is no number, so it is insert_by_range; obj.erase(begin, end) is
\* erase_by_range.
splice(st, l, position, obj, begin, end) ==
    IF st.err # "none" THEN st
    ELSE
    LET b == IF begin = null THEN st.list[obj].begin_ ELSE begin
        e == IF begin = null THEN st.list[obj].end_
             ELSE IF end = null THEN st.node[begin].next
             ELSE end
        s1 == insert_by_range(st, l, position, b, e)
    IN erase_by_range(s1, obj, b, e)

\* The inner while loop of merge: the first `it` at end() or whose value
\* does not go before val.
RECURSIVE MergeSeek(_, _, _, _, _, _)
MergeSeek(st, l, it, c, val, steps) ==
    IF it = null \/ st.list[l].end_ = null THEN [it |-> it, err |-> "TypeError"]
    ELSE IF IterEquals(st, it, st.list[l].end_) THEN [it |-> it, err |-> "none"]
    ELSE IF ~ compare(c, st.node[it].value, val) THEN [it |-> it, err |-> "none"]
    ELSE IF steps > st.alloc THEN [it |-> it, err |-> "hang"]
    ELSE MergeSeek(st, l, st.node[it].next, c, val, steps + 1)

\* The outer while loop of merge.  obj.size_ only ever goes down, by the
\* length of the range erased: the loop cannot end once size_ is negative or
\* once a round leaves it as it was.
RECURSIVE MergeLoop(_, _, _, _, _)
MergeLoop(st, l, obj, it, c) ==
    IF st.err # "none" THEN st
    ELSE IF empty(st, obj) THEN st
    ELSE IF st.list[obj].size_ < 0 THEN Raise(st, "hang")
    ELSE IF st.list[obj].begin_ = null THEN Raise(st, "TypeError")
    ELSE
    LET begin == st.list[obj].begin_
        sk == MergeSeek(st, l, it, c, st.node[begin].value, 0)
        s1 == IF sk.err # "none" THEN Raise(st, sk.err)
              ELSE splice(st, l, sk.it, obj, begin, null)
    IN IF s1.err = "none" /\ s1.list[obj].size_ = st.list[obj].size_
       THEN Raise(s1, "hang")
       ELSE MergeLoop(s1, l, obj, sk.it, c)

\* merge(obj, compare)
merge(st, l, obj, c) ==
    IF st.err # "none" \/ l = obj THEN st
    ELSE MergeLoop(st, l, obj, st.list[l].begin_, c)

\* ------------------------------------------------------------------ assign
\* The input iterators handed to assign: a ListIterator (at is the node) or
\* a position of a Vector (at is the index, the length plus one for end()).
\* Two iterators are the same object exactly when they are the same record.
ListIt(n) == [kind |-> "list", at |-> n]
VecIt(i) == [kind |-> "vector", at |-> i]

\* it.value
ItValue(st, vec, it) ==
    IF it.kind = "list" THEN st.node[it.at].value
    ELSE IF it.at \in 1 .. Len(vec) THEN vec[it.at]
    ELSE null

\* it.next(); there is no position after a Vector's end().
ItNext(st, vec, it) ==
    IF it.kind = "list" THEN ListIt(st.node[it.at].next)
    ELSE IF it.at \in 1 .. Len(vec) THEN VecIt(it.at + 1)
    ELSE VecIt(null)

\* Does the while (true) loop of assign come to its break or to a throw?
\* The loop reads the source by next() and never writes to it, so a walk of
\* more steps than there are positions is on a cycle that the break
\* (it == end, looked at only when it != begin) is not on.
RECURSIVE AssignStops(_, _, _, _, _, _)
AssignStops(st, vec, it, begin, end, fuel) ==
    IF it.at = null THEN TRUE
    ELSE IF it # begin /\ it = end THEN TRUE
    ELSE IF fuel = 0 THEN FALSE
    ELSE AssignStops(st, vec, ItNext(st, vec, it), begin, end, fuel - 1)

\* The while (true) loop of assign.  prev is the local that the loop reads
\* and never sets.
RECURSIVE AssignLoop(_, _, _, _, _, _, _)
AssignLoop(st, l, vec, prev, it, begin, end) ==
    IF st.err # "none" THEN st
    ELSE IF it.at = null /\ it # end THEN Raise(st, "TypeError")
    ELSE
    LET s1 == NewIterator(st, l, prev, null,
                          IF it # end THEN ItValue(st, vec, it) ELSE null)
        item == s1.ret
        s2 == IF prev # null THEN setNext(s1, prev, item) ELSE s1
    IN IF s2.err # "none" THEN s2
       ELSE IF it # begin /\ it = end
       THEN [s2 EXCEPT !.list[l].end_ = item]
       ELSE LET s3 == IF it = begin
                      THEN [s2 EXCEPT !.list[l].begin_ = item]
                      ELSE s2
                s4 == [s3 EXCEPT !.list[l].size_ = @ + 1]
            IN IF it.at = null THEN Raise(s4, "TypeError")
               ELSE AssignLoop(s4, l, vec, prev, ItNext(s4, vec, it), begin, end)

\* assign(begin, end): the branch taken when both arguments are iterators.
assign_range(st, l, vec, begin, end) ==
    IF st.err # "none" THEN st
    ELSE IF begin.at = null \/ end.at = null THEN st
    ELSE IF ~ AssignStops(st, vec, begin, begin, end, st.alloc + Len(vec) + 1)
    THEN Raise(st, "hang")
    ELSE AssignLoop(st, l, vec, null, begin, begin, end)

\* assign(n, val): par1 is no iterator, and the method has no other branch.
assign_fill(st, l, n, val) == st

\* new List(n, val): the fields are declared without initializer, and the
\* branch of the constructor calls assign(size, val) only.
ListFill(st, l, n, val) ==
    assign_fill([st EXCEPT !.list[l] = [begin_ |-> null, end_ |-> null, size_ |-> null]],
                l, n, val)

\* -------------------------------------------------------------------- sort
\* s in the order of comparator c, equivalent elements in their order in s.
RECURSIVE InsertSorted(_, _, _)
InsertSorted(s, x, c) ==
    IF s = <<>> THEN <<x>>
    ELSE IF compare(c, x, Head(s)) THEN <<x>> \o s
    ELSE <<Head(s)>> \o InsertSorted(Tail(s), x, c)

RECURSIVE StableSort(_, _)
StableSort(s, c) ==
    IF s = <<>> THEN <<>>
    ELSE InsertSorted(StableSort(SubSeq(s, 1, Len(s) - 1), c), s[Len(s)], c)

\* new Vector(begin, end): the values read by next() from begin until end.
RECURSIVE VectorOf(_, _, _, _)
VectorOf(st, it, end, fuel) ==
    IF it = null \/ end = null THEN [vec |-> <<>>, err |-> "TypeError"]
    ELSE IF IterEquals(st, it, end) THEN [vec |-> <<>>, err |-> "none"]
    ELSE IF fuel = 0 THEN [vec |-> <<>>, err |-> "hang"]
    ELSE LET rest == VectorOf(st, st.node[it].next, end, fuel - 1)
         IN [vec |-> <<st.node[it].value>> \o rest.vec, err |-> rest.err]

\* sort(compare): std.sort is called with the two iterators only, so it
\* orders the vector by std.less whatever compare is.
sort(st, l, c) ==
    IF st.err # "none" THEN st
    ELSE
    LET v == VectorOf(st, st.list[l].begin_, st.list[l].end_, st.alloc)
        sorted == StableSort(v.vec, "less")
    IN IF v.err # "none" THEN Raise(st, v.err)
       ELSE assign_range(st, l, sorted, VecIt(1), VecIt(Len(sorted) + 1))

\* ------------------------------------------------------------------ unique
\* The binary predicates handed to unique: std.equals, and one under which
\* distinct values can be equivalent.
BinPreds == {"equals", "sameHalf"}
binary_pred(p, x, y) == IF p = "equals" THEN x = y ELSE (x \div 2) = (y \div 2)

\* std.equals
equals(x, y) == x = y

\* The while loop of unique.  idle and fuel are as in RemoveLoop.
RECURSIVE UniqueLoop(_, _, _, _, _)
UniqueLoop(st, l, it, idle, fuel) ==
    IF st.err # "none" THEN st
    ELSE IF it = null \/ st.list[l].end_ = null THEN Raise(st, "TypeError")
    ELSE IF IterEquals(st, it, st.list[l].end_) THEN st
    ELSE IF idle > st.alloc THEN Raise(st, "hang")
    ELSE IF fuel = 0 THEN Raise(st, "bound")
    ELSE IF st.node[it].prev = null THEN Raise(st, "TypeError")
    ELSE IF equals(st.node[it].value, st.node[st.node[it].prev].value)
         THEN LET s1 == erase_by_iterator(st, l, it)
              IN UniqueLoop(s1, l, s1.ret, 0, fuel - 1)
         ELSE UniqueLoop(st, l, st.node[it].next, idle + 1, fuel - 1)

\* unique(binary_pred): the loop compares by std.equals, not by binary_pred.
unique(st, l, p) ==
    IF st.err # "none" THEN st
    ELSE IF st.list[l].begin_ = null THEN Raise(st, "TypeError")
    ELSE UniqueLoop(st, l, st.node[st.list[l].begin_].next, 0, 4 * MaxNodes)

\* ------------------------------------------------------------- observation
\* The nodes visited by next() from `it` until `end`, a null link or `fuel`
\* steps, whichever comes first.
RECURSIVE Chain(_, _, _, _)
Chain(h, it, end, fuel) ==
    IF it = null \/ it = end \/ fuel = 0 THEN <<>>
    ELSE <<it>> \o Chain(h, h[it].next, end, fuel - 1)

\* Does next() from `it` arrive at `end` within `fuel` steps?
RECURSIVE Arrives(_, _, _, _)
Arrives(h, it, end, fuel) ==
    IF it = null THEN FALSE
    ELSE IF it = end THEN TRUE
    ELSE IF fuel = 0 THEN FALSE
    ELSE Arrives(h, h[it].next, end, fuel - 1)

\* What a caller sees of list l in heap h: the nodes and values walked from
\* begin() to end(), whether that walk arrives at end(), and the fields.
View(h, ls, l) ==
    LET ns == Chain(h, ls[l].begin_, ls[l].end_, MaxNodes)
    IN [nodes  |-> ns,
        seq    |-> [i \in 1 .. Len(ns) |-> h[ns[i]].value],
        closed |-> Arrives(h, ls[l].begin_, ls[l].end_, MaxNodes),
        size   |-> ls[l].size_,
        begin  |-> ls[l].begin_,
        end    |-> ls[l].end_]

Now(l) == View(node, list, l)

\* The handles a caller can hold on list l: its elements and its end().
Elems(l) == {Now(l).nodes[i] : i \in 1 .. Len(Now(l).nodes)}
Positions(l) == Elems(l) \cup {list[l].end_}

\* The ranges [first, last) of list l: last is first or comes after it.
Ranges(l) ==
    LET ps == Now(l).nodes \o <<list[l].end_>>
    IN {<<ps[x[1]], ps[x[2]]>> :
            x \in {y \in (1 .. Len(ps)) \X (1 .. Len(ps)) : y[1] <= y[2]}}

\* The nodes of the range [first, last).
RangeNodes(first, last) ==
    LET ns == Chain(node, first, last, MaxNodes)
    IN {ns[i] : i \in 1 .. Len(ns)}

\* The other list.
Other(l) == CHOOSE o \in Lists : o # l

\* Handles given where the callee expects a handle of list l: one of l, or
\* a handle of the other list (its end(), its first element, all of it, or
\* a range that starts in l and ends in the other list).
PosArgs(l) == Positions(l) \cup {list[Other(l)].end_}
ElemArgs(l) == Elems(l) \cup {Now(Other(l)).nodes[i] : i \in 1 .. Len(Now(Other(l)).nodes) \cap {1}}
RangeArgs(l) ==
    Ranges(l) \cup {<<list[Other(l)].begin_, list[Other(l)].end_>>,
                    <<list[l].begin_, list[Other(l)].end_>>}

\* -------------------------------------------------------------------- swap
\* swap_list(obj): the three fields of the two lists change places.
swap_list(st, l, obj) ==
    IF st.err # "none" THEN st
    ELSE LET supplement == st.list[l]
         IN [st EXCEPT !.list[l] = st.list[obj], !.list[obj] = supplement]

\* swap(obj) with a List for obj.
swap(st, l, obj) == swap_list(st, l, obj)

\* ------------------------------------------------------------ binary trees
\* std.less on numbers.
less(x, y) == x < y

\* Range of a sequence, and the place of x in a sequence that holds it once.
Items(s) == {s[i] : i \in 1 .. Len(s)}
IndexOf(s, x) == CHOOSE i \in 1 .. Len(s) : s[i] = x

\* An XTree is written as the sequence of its items in preorder: the root
\* first, then the left subtree, then the right one.  k[x] is the key item x
\* is ordered by.
TreeLeft(k, t) ==
    LET lt(x) == less(k[x], k[Head(t)]) IN SelectSeq(Tail(t), lt)

TreeRight(k, t) ==
    LET ge(x) == ~ less(k[x], k[Head(t)]) IN SelectSeq(Tail(t), ge)

RECURSIVE Preorder(_, _)
Preorder(k, t) ==
    IF t = << >> THEN << >>
    ELSE <<Head(t)>> \o Preorder(k, TreeLeft(k, t)) \o Preorder(k, TreeRight(k, t))

RECURSIVE InOrder(_, _)
InOrder(k, t) ==
    IF t = << >> THEN << >>
    ELSE InOrder(k, TreeLeft(k, t)) \o <<Head(t)>> \o InOrder(k, TreeRight(k, t))

\* XTree.insert(x): x becomes the leaf the descent from the root ends at.
TreeInsert(k, t, x) == Preorder(k, Append(t, x))

\* XTree.erase(x): the node of x leaves the tree, the others stay ordered.
TreeErase(k, t, x) ==
    LET keep(y) == y # x IN Preorder(k, SelectSeq(t, keep))

\* A search that gives up with null where the child to step to is null.
RECURSIVE FindLoop_null(_, _, _)
FindLoop_null(k, t, val) ==
    IF equals(val, k[Head(t)]) THEN Head(t)
    ELSE LET newNode == IF less(val, k[Head(t)]) THEN TreeLeft(k, t)
                        ELSE TreeRight(k, t)
         IN IF newNode = << >> THEN null ELSE FindLoop_null(k, newNode, val)

\* A search that answers with the root unless the root is equal.
FindLoop_root(k, t, val) == Head(t)

\* The loop of findByVal, at the node that roots t: stop at an equal node,
\* else step to the left or right child, and stop where that child is null.
RECURSIVE FindLoop(_, _, _)
FindLoop(k, t, val) ==
    LET tnode == Head(t) IN
    IF equals(val, k[tnode]) THEN tnode
    ELSE LET newNode == IF less(val, k[tnode]) THEN TreeLeft(k, t)
                        ELSE TreeRight(k, t)
         IN IF newNode = << >> THEN tnode ELSE FindLoop(k, newNode, val)

\* findByVal(val): null for a tree without root, else the node the loop
\* stops at.
findByVal(k, t, val) ==
    IF t = << >> THEN null ELSE FindLoop(k, t, val)

\* -------------------------------------------------------------- AtomicTree
\* An AtomicTree<T> orders its items by themselves.
Self == [v \in TreeVals |-> v]

\* AtomicTree.find(val) with a value for val.
AtomicTree_find(t, val) == findByVal(Self, t, val)

AtomicTree0 == [tree |-> << >>, op |-> "new", val |-> null, ret |-> null]

\* ----------------------------------------------------------------- TreeMap
\* A MapIterator is the identity of the stored element it stands at, or
\* EndIt for end().
EndIt == 0
ElemIds == 1 .. MaxKey + 1
NoPair == [first |-> null, second |-> null]

\* The fields of a map: the elements in iteration order (data), the pair
\* each element holds, and the index tree over the elements.
Map0 == [data |-> << >>, elem |-> [i \in ElemIds |-> NoPair], tree |-> << >>]

\* it.first of every element.
KeyOf(m) == [i \in ElemIds |-> m.elem[i].first]

\* MapIterator.next(): the element after it; the first element after end().
MapIterator_next(m, it) ==
    IF it = EndIt THEN (IF m.data = << >> THEN EndIt ELSE m.data[1])
    ELSE LET i == IndexOf(m.data, it)
         IN IF i < Len(m.data) THEN m.data[i + 1] ELSE EndIt

\* A find that answers with the node the tree search stopped at.
TreeMap_find_nearest(m, key) ==
    LET tnode == findByVal(KeyOf(m), m.tree, key) IN
    [it |-> IF tnode = null THEN EndIt ELSE tnode, err |-> "none"]

\* MapIterator.prev(): the element before it; the last element before
\* end(), and end() before the first element.
MapIterator_prev(m, it) ==
    IF it = EndIt THEN (IF m.data = << >> THEN EndIt ELSE m.data[Len(m.data)])
    ELSE LET i == IndexOf(m.data, it)
         IN IF i > 1 THEN m.data[i - 1] ELSE EndIt

\* The two loops of advance, with i rounds done of n, going forward or
\* backward.
RECURSIVE AdvanceLoop(_, _, _, _, _)
AdvanceLoop(m, it, i, n, forward) ==
    IF ~ (i < n) THEN it
    ELSE IF it = EndIt THEN EndIt
    ELSE AdvanceLoop(m, IF forward THEN MapIterator_next(m, it)
                        ELSE MapIterator_prev(m, it), i + 1, n, forward)

\* MapIterator.advance(n) of the handle it.
MapIterator_advance(m, it, n) ==
    IF n >= 0 THEN AdvanceLoop(m, it, 0, n, TRUE)
    ELSE AdvanceLoop(m, it, 0, 0 - n, FALSE)

\* TreeMap.find(key).
TreeMap_find(m, key) ==
    LET tnode == findByVal(KeyOf(m), m.tree, key) IN
    IF tnode = null \/ equals(KeyOf(m)[tnode], key) = FALSE
    THEN [it |-> EndIt, err |-> "none"]
    ELSE [it |-> tnode, err |-> "none"]

\* A lowerBound that answers with the node the tree search stopped at.
TreeMap_lowerBound_nearest(m, key) ==
    LET tnode == findByVal(KeyOf(m), m.tree, key) IN
    IF tnode = null THEN EndIt ELSE tnode

\* TreeMap.lowerBound(key).
TreeMap_lowerBound(m, key) ==
    LET tnode == findByVal(KeyOf(m), m.tree, key) IN
    IF tnode = null THEN EndIt
    ELSE IF less(KeyOf(m)[tnode], key) THEN MapIterator_next(m, tnode)
    ELSE tnode

\* An upperBound that stops at an equal key.
TreeMap_upperBound_lower(m, key) == TreeMap_lowerBound(m, key)

\* TreeMap.upperBound(key).
TreeMap_upperBound(m, key) ==
    LET tnode == findByVal(KeyOf(m), m.tree, key) IN
    IF tnode = null THEN EndIt
    ELSE IF ~ equals(KeyOf(m)[tnode], key) /\ ~ less(KeyOf(m)[tnode], key) THEN tnode
    ELSE MapIterator_next(m, tnode)

\* An equalRange that ends where it begins.
TreeMap_equalRange_lower(m, key) ==
    [first |-> TreeMap_lowerBound(m, key), second |-> TreeMap_lowerBound(m, key)]

\* TreeMap.equalRange(key).
TreeMap_equalRange(m, key) ==
    [first |-> TreeMap_lowerBound(m, key), second |-> TreeMap_upperBound(m, key)]

\* TreeMap.handleInsert(item), handleErase(item).
TreeMap_handleInsert(m, item) ==
    [m EXCEPT !.tree = TreeInsert(KeyOf(m), m.tree, item)]

TreeMap_handleErase(m, item) ==
    [m EXCEPT !.tree = TreeErase(KeyOf(m), m.tree, item)]

\* The identity a new element holding key gets: identities are labels, and
\* the label is the key where no element bears it yet, else the least one
\* no element bears.
FreeId(m, key) ==
    IF key \notin Items(m.data) THEN key
    ELSE CHOOSE i \in ElemIds :
             i \notin Items(m.data) /\ \A j \in 1 .. i - 1 : j \in Items(m.data)

\* MapContainer.insert(hint, pair): a new element holding pair goes into the
\* store before hint, and the map indexes it.
MapContainer_insert(m, hint, pair) ==
    LET id == FreeId(m, pair.first)
        i == IF hint = EndIt THEN Len(m.data) + 1 ELSE IndexOf(m.data, hint)
        stored == [m EXCEPT !.data = SubSeq(m.data, 1, i - 1) \o <<id>>
                                     \o SubSeq(m.data, i, Len(m.data)),
                            !.elem[id] = pair]
    IN [m |-> TreeMap_handleInsert(stored, id), it |-> id]

\* An insertByPair that puts every new pair before the node the tree
\* search stopped at.
TreeMap_insertByPair_atNode(m, pair) ==
    LET tnode == findByVal(KeyOf(m), m.tree, pair.first) IN
    IF tnode # null /\ equals(KeyOf(m)[tnode], pair.first) = TRUE
    THEN [m |-> m, it |-> tnode, inserted |-> FALSE]
    ELSE LET r == MapContainer_insert(m, IF tnode = null THEN EndIt ELSE tnode, pair)
         IN [m |-> r.m, it |-> r.it, inserted |-> TRUE]

\* An insertByPair that does not look for the key first.
TreeMap_insertByPair_again(m, pair) ==
    LET tnode == findByVal(KeyOf(m), m.tree, pair.first)
        it == IF tnode = null THEN EndIt
              ELSE IF less(KeyOf(m)[tnode], pair.first) = TRUE
                   THEN MapIterator_next(m, tnode)
              ELSE tnode
        r == MapContainer_insert(m, it, pair)
    IN [m |-> r.m, it |-> r.it, inserted |-> TRUE]

\* TreeMap.insertByPair(pair).
TreeMap_insertByPair(m, pair) ==
    LET tnode == findByVal(KeyOf(m), m.tree, pair.first) IN
    IF tnode # null /\ equals(KeyOf(m)[tnode], pair.first) = TRUE
    THEN [m |-> m, it |-> tnode, inserted |-> FALSE]
    ELSE LET it == IF tnode = null THEN EndIt
                   ELSE IF less(KeyOf(m)[tnode], pair.first) = TRUE
                        THEN MapIterator_next(m, tnode)
                   ELSE tnode
             r == MapContainer_insert(m, it, pair)
         IN [m |-> r.m, it |-> r.it, inserted |-> TRUE]

\* MapContainer.erase(key): the element find(key) gives leaves the store,
\* then the index; a key that is not there erases nothing.
MapContainer_erase(m, key) ==
    LET it == TreeMap_find(m, key).it IN
    IF it = EndIt THEN m
    ELSE LET keep(y) == y # it
             gone == [m EXCEPT !.data = SelectSeq(m.data, keep)]
         IN [TreeMap_handleErase(gone, it) EXCEPT !.elem[it] = NoPair]

\* TreeMap.clear(): the store is emptied and the tree is a new PairTree.
TreeMap_clear(m) == [Map0 EXCEPT !.tree = << >>]

NoMapCall == [op |-> "new", key |-> null, val |-> null, it |-> EndIt, n |-> 0]
NoMapRet == [it |-> EndIt, it2 |-> EndIt, inserted |-> FALSE, err |-> "none"]

\* new TreeMap(): an empty store and a new PairTree.
TreeMap0 == [map |-> Map0, call |-> NoMapCall, ret |-> NoMapRet, pre |-> Map0]

\* -------------------------------------------------------- UnorderedMultiMap
\* base.Hash.code(val) of a number.
Hash_code(val) == val

\* The fields of an UnorderedMultiMap: the elements in iteration order
\* (data), the key every element ever inserted holds (key; n elements were
\* made so far), the buckets of handles (hashGroup), and the two constants
\* of base.Hash the map was built with.  Mapped values play no part in the
\* index and are left out.  rehash tells whether the last call ran
\* reconstructHashGroup.

\* A constructHashGroup that takes the size as it is given.
UMap_constructHashGroup_exact(u, size) ==
    [u EXCEPT !.hashGroup = [i \in 1 .. size |-> << >>]]

\* constructHashGroup(size): size empty buckets, MIN_SIZE at least.
UMap_constructHashGroup(u, size) ==
    LET sz == IF size < u.MIN_SIZE THEN u.MIN_SIZE ELSE size
    IN [u EXCEPT !.hashGroup = [i \in 1 .. sz |-> << >>]]

\* hashIndex(val): the bucket of val, counted from 0.
UMap_hashIndex(u, val) == Hash_code(val) % Len(u.hashGroup)

\* handleInsert(it) and reconstructHashGroup(size) call each other; depth is
\* the number of reconstructHashGroup frames on the stack, and a call beyond
\* MaxStack frames is the RangeError of a stack that ran out.
RECURSIVE UMap_handleInsert(_, _, _)
RECURSIVE UMap_reconstructHashGroup(_, _, _)
RECURSIVE UMap_reconstructLoop(_, _, _)

\* The loop of reconstructHashGroup over begin() .. end(), at element i of
\* the store.
UMap_reconstructLoop(u, i, depth) ==
    IF u.err # "none" \/ i > Len(u.data) THEN u
    ELSE UMap_reconstructLoop(UMap_handleInsert(u, u.data[i], depth), i + 1, depth)

UMap_reconstructHashGroup(u, size, depth) ==
    IF u.err # "none" THEN u
    ELSE IF depth >= MaxStack THEN Raise(u, "RangeError")
    ELSE LET sz == IF size = -1 THEN Len(u.data) * u.RATIO ELSE size
         IN UMap_reconstructLoop(
                [UMap_constructHashGroup(u, sz) EXCEPT !.rehash = TRUE], 1, depth + 1)

UMap_handleInsert(u, it, depth) ==
    IF u.err # "none" THEN u
    ELSE LET u1 == IF Len(u.hashGroup) > Len(u.data) * 2
                   THEN UMap_reconstructHashGroup(u, -1, depth)
                   ELSE u
             hashIndex == UMap_hashIndex(u1, u1.key[it])
         IN IF u1.err # "none" THEN u1
            ELSE [u1 EXCEPT !.hashGroup[hashIndex + 1] = Append(@, it)]

\* handleErase(it): the first handle of the bucket whose key equals it.first
\* leaves the bucket.
UMap_handleErase(u, it) ==
    LET hashIndex == UMap_hashIndex(u, u.key[it])
        hashVector == u.hashGroup[hashIndex + 1]
        hit == {i \in 1 .. Len(hashVector) : equals(u.key[it], u.key[hashVector[i]])}
    IN IF hit = {} THEN u
       ELSE LET i == CHOOSE i \in hit : \A j \in hit : i <= j
            IN [u EXCEPT !.hashGroup[hashIndex + 1] =
                    SubSeq(hashVector, 1, i - 1) \o SubSeq(hashVector, i + 1, Len(hashVector))]

\* find(key): the first handle of the bucket of key whose key equals key.
UMap_find(u, key) ==
    LET hashArray == u.hashGroup[UMap_hashIndex(u, key) + 1]
        hit == {i \in 1 .. Len(hashArray) : equals(u.key[hashArray[i]], key)}
    IN IF hit = {} THEN EndIt
       ELSE hashArray[CHOOSE i \in hit : \A j \in hit : i <= j]

\* insertByPair(pair): a new element at the end of the store, then
\* handleInsert of its handle; u.ret is the handle.
UMap_insertByPair(u, key) ==
    IF u.err # "none" THEN u
    ELSE IF u.n >= MaxInserts THEN Raise(u, "bound")
    ELSE LET it == u.n + 1
             stored == [u EXCEPT !.data = Append(@, it), !.key[it] = key, !.n = it]
             done == UMap_handleInsert(stored, it, 0)
         IN IF done.err # "none" THEN done ELSE [done EXCEPT !.ret = it]

\* MapContainer.insertByRange(begin, end): every pair of the range is
\* inserted in turn.
RECURSIVE MapContainer_insertByRange(_, _)
MapContainer_insertByRange(u, keys) ==
    IF keys = << >> THEN u
    ELSE MapContainer_insertByRange(UMap_insertByPair(u, Head(keys)), Tail(keys))

\* insertByRange(begin, end), the range holding the keys `keys`.
UMap_insertByRange(u, keys) ==
    LET size == Len(keys)
        u1 == IF Len(u.data) + size > Len(u.hashGroup) * 2
              THEN UMap_reconstructHashGroup(u, (Len(u.data) + size) * u.RATIO, 0)
              ELSE u
    IN [MapContainer_insertByRange(u1, keys) EXCEPT !.ret = EndIt]

\* MapContainer.erase(it): the element leaves the store, then the index.
UMap_erase(u, it) ==
    LET keep(y) == y # it
    IN UMap_handleErase([u EXCEPT !.data = SelectSeq(u.data, keep)], it)

\* clear(): the store is emptied and the buckets are built anew.
UMap_clear(u) == UMap_constructHashGroup([u EXCEPT !.data = << >>], -1)

\* MapContainer.assign(begin, end): the map is cleared and the pairs of the
\* range are inserted.
MapContainer_assign(u, keys) == UMap_insertByRange(UMap_clear(u), keys)

\* assign(begin, end), the range holding the keys `keys`.
UMap_assign(u, keys) ==
    MapContainer_assign(UMap_constructHashGroup(u, Len(keys) * u.RATIO), keys)

\* new UnorderedMultiMap(), base.Hash holding MIN_SIZE and RATIO.
UMap0(min, ratio) ==
    [UMap_constructHashGroup([data |-> << >>,
                              key |-> [i \in 1 .. MaxInserts |-> null], n |-> 0,
                              hashGroup |-> << >>, MIN_SIZE |-> min,
                              RATIO |-> ratio, err |-> "none", ret |-> EndIt,
                              rehash |-> FALSE, op |-> "new", arg |-> null], -1)
        EXCEPT !.op = "new"]

\* ------------------------------------------------------------------- state
Arrays(n) == UNION {[1 .. k -> Vals] : k \in 0 .. n}

NoCall == [op |-> "new", l |-> null, obj |-> null, pos |-> null,
           first |-> null, last |-> null, val |-> null, n |-> null,
           sel |-> "none"]

Heap0 == [node  |-> [i \in NodeIds |-> NoNode],
          list  |-> [l \in Lists |-> [begin_ |-> null, end_ |-> null, size_ |-> 0]],
          alloc |-> 0,
          err   |-> "none",
          ret   |-> null]

\* Two lists, each built by the array constructor from an array of A1, of
\* A2; the keyed containers as their constructors leave them, base.Hash
\* holding a pair <<MIN_SIZE, RATIO>> of H.
InitFrom(A1, A2, H) ==
    \E a1 \in A1, a2 \in A2 :
        LET s == ListFromArray(ListFromArray(Heap0, 1, a1), 2, a2)
        IN /\ node = s.node
           /\ list = s.list
           /\ alloc = s.alloc
           /\ err = "none"
           /\ ret = null
           /\ call = NoCall
           /\ calls = 0
           /\ pre = [l \in Lists |-> View(s.node, s.list, l)]
           /\ at = AtomicTree0
           /\ tm = TreeMap0
           /\ \E h \in H : um = UMap0(h[1], h[2])

\* List 2 from an array one shorter than list 1 may get.
Init == InitFrom(Arrays(MaxInitLen), Arrays(MaxInitLen - 1), {<<1, 1>>})

\* The keyed containers beside two empty lists.
InitKeyed == InitFrom({<< >>}, {<< >>}, {<<1, 1>>})

\* An UnorderedMultiMap under every MIN_SIZE and RATIO of the bounds.
InitHash == InitFrom({<< >>}, {<< >>}, (1 .. MaxMinSize) \X (1 .. MaxRatio))

\* The machine state a method call starts from.
Cur == [node |-> node, list |-> list, alloc |-> alloc, err |-> "none", ret |-> null]

\* A call that took the machine to r: the program goes on after a caught
\* exception, never after a call that does not return.
DoWithin(r, c, max) ==
    /\ err # "hang"
    /\ calls < max
    /\ r.err # "bound"
    /\ node' = r.node
    /\ list' = r.list
    /\ alloc' = r.alloc
    /\ err' = r.err
    /\ ret' = r.ret
    /\ call' = c
    /\ calls' = calls + 1
    /\ pre' = [l \in Lists |-> Now(l)]
    /\ UNCHANGED <<at, tm, um>>

Do(r, c) == DoWithin(r, c, MaxCalls)

PushBack ==
    \E l \in Lists, v \in Vals :
        Do(push_back(Cur, l, v), [NoCall EXCEPT !.op = "push_back", !.l = l, !.val = v])

PushFront ==
    \E l \in Lists, v \in Vals :
        Do(push_front(Cur, l, v), [NoCall EXCEPT !.op = "push_front", !.l = l, !.val = v])

PopFront ==
    \E l \in Lists :
        Do(pop_front(Cur, l), [NoCall EXCEPT !.op = "pop_front", !.l = l])

PopBack ==
    \E l \in Lists :
        Do(pop_back(Cur, l), [NoCall EXCEPT !.op = "pop_back", !.l = l])

\* pop_front() and pop_back() until the list is empty, and once more.
PopFrontOut ==
    \E l \in Lists :
        DoWithin(pop_front(Cur, l), [NoCall EXCEPT !.op = "pop_front", !.l = l], MaxPops)

PopBackOut ==
    \E l \in Lists :
        DoWithin(pop_back(Cur, l), [NoCall EXCEPT !.op = "pop_back", !.l = l], MaxPops)

Clear ==
    \E l \in Lists :
        Do(clear(Cur, l), [NoCall EXCEPT !.op = "clear", !.l = l])

\* insert(position, val)
Insert ==
    \E l \in Lists :
        \E p \in PosArgs(l), v \in Vals :
            Do(insert_by_val(Cur, l, p, v),
               [NoCall EXCEPT !.op = "insert", !.l = l, !.pos = p, !.val = v])

\* insert(position, n, val) for several elements (Insert is n = 1)
InsertFill ==
    \E l \in Lists :
        \E p \in PosArgs(l), n \in 2 .. MaxFill, v \in Vals :
            Do(insertByRepeatingVal(Cur, l, p, n, v),
               [NoCall EXCEPT !.op = "insert_fill", !.l = l, !.pos = p, !.n = n, !.val = v])

\* insert(position, first, last) with [first, last) a range of the other list
InsertRange ==
    \E l \in Lists :
        \E p \in PosArgs(l), r \in Ranges(Other(l)) :
            Do(insert_by_range(Cur, l, p, r[1], r[2]),
               [NoCall EXCEPT !.op = "insert_range", !.l = l, !.pos = p,
                              !.obj = Other(l), !.first = r[1], !.last = r[2]])

\* erase(position)
Erase ==
    \E l \in Lists :
        \E p \in ElemArgs(l) :
            Do(erase_by_iterator(Cur, l, p),
               [NoCall EXCEPT !.op = "erase", !.l = l, !.pos = p])

\* erase(first, last)
EraseRange ==
    \E l \in Lists :
        \E r \in RangeArgs(l) :
            Do(erase_by_range(Cur, l, r[1], r[2]),
               [NoCall EXCEPT !.op = "erase_range", !.l = l, !.first = r[1], !.last = r[2]])

Remove ==
    \E l \in Lists, v \in Vals :
        Do(remove(Cur, l, v), [NoCall EXCEPT !.op = "remove", !.l = l, !.val = v])

RemoveIf ==
    \E l \in Lists, p \in Preds :
        Do(remove_if(Cur, l, p), [NoCall EXCEPT !.op = "remove_if", !.l = l, !.sel = p])

Merge ==
    \E l \in Lists, o \in Lists, c \in Compares :
        Do(merge(Cur, l, o, c), [NoCall EXCEPT !.op = "merge", !.l = l, !.obj = o, !.sel = c])

\* splice(position, obj): all of the other list
SpliceAll ==
    \E l \in Lists :
        \E p \in PosArgs(l) :
            Do(splice(Cur, l, p, Other(l), null, null),
               [NoCall EXCEPT !.op = "splice_all", !.l = l, !.pos = p, !.obj = Other(l)])

\* splice(position, obj, it): one element, which is not position itself
SpliceOne ==
    \E l \in Lists, o \in Lists :
        \E p \in PosArgs(l), it \in ElemArgs(o) :
            /\ p # it
            /\ Do(splice(Cur, l, p, o, it, null),
                  [NoCall EXCEPT !.op = "splice_one", !.l = l, !.pos = p, !.obj = o,
                                 !.first = it, !.last = node[it].next])

\* splice(position, obj, first, last): a range that does not hold position
SpliceRange ==
    \E l \in Lists, o \in Lists :
        \E p \in Positions(l), r \in RangeArgs(o) :
            /\ p \notin RangeNodes(r[1], r[2])
            /\ Do(splice(Cur, l, p, o, r[1], r[2]),
                  [NoCall EXCEPT !.op = "splice_range", !.l = l, !.pos = p, !.obj = o,
                                 !.first = r[1], !.last = r[2]])

\* swap(obj) with the other list
Swap ==
    \E l \in Lists :
        Do(swap(Cur, l, Other(l)), [NoCall EXCEPT !.op = "swap", !.l = l, !.obj = Other(l)])

\* assign(first, last) with [first, last) a range of either list
Assign ==
    \E l \in Lists, o \in Lists :
        \E r \in Ranges(o) :
            Do(assign_range(Cur, l, <<>>, ListIt(r[1]), ListIt(r[2])),
               [NoCall EXCEPT !.op = "assign", !.l = l, !.obj = o,
                              !.first = r[1], !.last = r[2]])

\* assign(n, val)
AssignFill ==
    \E l \in Lists, n \in 0 .. MaxFill, v \in Vals :
        Do(assign_fill(Cur, l, n, v),
           [NoCall EXCEPT !.op = "assign_fill", !.l = l, !.n = n, !.val = v])

\* l = new List(n, val)
NewFill ==
    \E l \in Lists, n \in 0 .. MaxFill, v \in Vals :
        Do(ListFill(Cur, l, n, v),
           [NoCall EXCEPT !.op = "new_fill", !.l = l, !.n = n, !.val = v])

\* sort(compare)
Sort ==
    \E l \in Lists, c \in Compares :
        Do(sort(Cur, l, c), [NoCall EXCEPT !.op = "sort", !.l = l, !.sel = c])

\* unique()
Unique ==
    \E l \in Lists :
        Do(unique(Cur, l, "equals"), [NoCall EXCEPT !.op = "unique", !.l = l, !.sel = "equals"])

\* unique(binary_pred)
UniqueBy ==
    \E l \in Lists, p \in BinPreds :
        Do(unique(Cur, l, p), [NoCall EXCEPT !.op = "unique_by", !.l = l, !.sel = p])

\* A call on a keyed container leaves the lists alone.
ListsIdle == UNCHANGED <<node, list, alloc, err, ret, call, pre, calls>>

\* tree.insert(v) of a value the tree does not hold yet.
AtInsert ==
    \E v \in TreeVals \ Items(at.tree) :
        /\ at' = [tree |-> TreeInsert(Self, at.tree, v), op |-> "insert",
                  val |-> v, ret |-> null]
        /\ ListsIdle
        /\ UNCHANGED <<tm, um>>

AtErase ==
    \E v \in Items(at.tree) :
        /\ at' = [tree |-> TreeErase(Self, at.tree, v), op |-> "erase",
                  val |-> v, ret |-> null]
        /\ ListsIdle
        /\ UNCHANGED <<tm, um>>

AtFind ==
    \E v \in TreeVals :
        /\ at' = [at EXCEPT !.op = "find", !.val = v,
                            !.ret = AtomicTree_find(at.tree, v)]
        /\ ListsIdle
        /\ UNCHANGED <<tm, um>>

\* A call on the TreeMap that left the fields m and returned r.
TmDo(m, c, r) ==
    /\ tm' = [map |-> m, call |-> c, ret |-> r, pre |-> tm.map]
    /\ ListsIdle
    /\ UNCHANGED <<at, um>>

TmInsert ==
    \E k \in Keys, v \in Mapped :
        /\ ~ (ElemIds \subseteq Items(tm.map.data))
        /\ LET r == TreeMap_insertByPair(tm.map, [first |-> k, second |-> v])
           IN TmDo(r.m, [NoMapCall EXCEPT !.op = "insert", !.key = k, !.val = v],
                   [NoMapRet EXCEPT !.it = r.it, !.inserted = r.inserted])

TmErase ==
    \E k \in Keys :
        TmDo(MapContainer_erase(tm.map, k),
             [NoMapCall EXCEPT !.op = "erase", !.key = k], NoMapRet)

TmClear ==
    TmDo(TreeMap_clear(tm.map), [NoMapCall EXCEPT !.op = "clear"], NoMapRet)

TmFind ==
    \E k \in Keys :
        LET r == TreeMap_find(tm.map, k)
        IN TmDo(tm.map, [NoMapCall EXCEPT !.op = "find", !.key = k],
                [NoMapRet EXCEPT !.it = r.it, !.err = r.err])

TmLowerBound ==
    \E k \in Keys :
        TmDo(tm.map, [NoMapCall EXCEPT !.op = "lowerBound", !.key = k],
             [NoMapRet EXCEPT !.it = TreeMap_lowerBound(tm.map, k)])

TmUpperBound ==
    \E k \in Keys :
        TmDo(tm.map, [NoMapCall EXCEPT !.op = "upperBound", !.key = k],
             [NoMapRet EXCEPT !.it = TreeMap_upperBound(tm.map, k)])

TmEqualRange ==
    \E k \in Keys :
        LET r == TreeMap_equalRange(tm.map, k)
        IN TmDo(tm.map, [NoMapCall EXCEPT !.op = "equalRange", !.key = k],
                [NoMapRet EXCEPT !.it = r.first, !.it2 = r.second])

TmAdvance ==
    \E it \in Items(tm.map.data) \cup {EndIt}, n \in (0 - MaxAdvance) .. MaxAdvance :
        TmDo(tm.map, [NoMapCall EXCEPT !.op = "advance", !.it = it, !.n = n],
             [NoMapRet EXCEPT !.it = MapIterator_advance(tm.map, it, n)])

\* A call on the UnorderedMultiMap that left it as u; a call that threw
\* leaves the fields as they were when it threw.
UmDo(u, op, arg) ==
    /\ u.err # "bound"
    /\ um' = [u EXCEPT !.op = op, !.arg = arg]
    /\ ListsIdle
    /\ UNCHANGED <<at, tm>>

UmCur == [um EXCEPT !.err = "none", !.ret = EndIt, !.rehash = FALSE]

UmInsert ==
    \E k \in Keys : UmDo(UMap_insertByPair(UmCur, k), "insert", k)

UmInsertRange ==
    \E keys \in UNION {[1 .. len -> Keys] : len \in 0 .. MaxBatch} :
        UmDo(UMap_insertByRange(UmCur, keys), "insertRange", Len(keys))

UmErase ==
    \E it \in Items(um.data) : UmDo(UMap_erase(UmCur, it), "erase", it)

UmClear == UmDo(UMap_clear(UmCur), "clear", null)

UmAssign ==
    \E keys \in UNION {[1 .. len -> Keys] : len \in 0 .. MaxBatch} :
        UmDo(UMap_assign(UmCur, keys), "assign", Len(keys))

UmFind ==
    \E k \in Keys :
        UmDo([UmCur EXCEPT !.ret = UMap_find(UmCur, k)], "find", k)

\* The calls of the node store proper.
NextStore ==
    \/ PushBack
    \/ PushFront
    \/ PopFront
    \/ PopBack
    \/ Clear
    \/ Insert
    \/ InsertFill
    \/ InsertRange
    \/ Erase
    \/ EraseRange

\* The sequence algorithms, on lists built by the constructors and by
\* push_front.
NextAlgo ==
    \/ PushFront
    \/ Remove
    \/ RemoveIf
    \/ Merge
    \/ SpliceAll
    \/ SpliceOne
    \/ SpliceRange

\* Building a list element by element and taking it apart again.
NextTrip ==
    \/ PushBack
    \/ PushFront
    \/ Insert
    \/ PopFront
    \/ PopBack
    \/ Erase
    \/ Swap

\* The calls that rebuild or reorder a whole list, on lists built by the
\* constructors and changed by push_back and pop_front.
NextSeq ==
    \/ PushBack
    \/ PopFront
    \/ Assign
    \/ AssignFill
    \/ NewFill
    \/ Sort
    \/ Unique
    \/ UniqueBy

\* Taking a list apart from both ends.
NextPop ==
    \/ PopFrontOut
    \/ PopBackOut

\* The calls on an AtomicTree.
NextAtomic ==
    \/ AtInsert
    \/ AtErase
    \/ AtFind

\* The calls on a TreeMap.
NextMap ==
    \/ TmInsert
    \/ TmErase
    \/ TmClear
    \/ TmFind
    \/ TmLowerBound
    \/ TmUpperBound
    \/ TmEqualRange
    \/ TmAdvance

\* The calls on an UnorderedMultiMap.
NextHash ==
    \/ UmInsert
    \/ UmInsertRange
    \/ UmErase
    \/ UmClear
    \/ UmAssign
    \/ UmFind

Next ==
    \/ NextStore
    \/ NextAlgo
    \/ NextTrip
    \/ NextSeq
    \/ NextPop
    \/ NextAtomic
    \/ NextMap
    \/ NextHash

Spec == Init /\ [][Next]_vars

SpecStore == Init /\ [][NextStore]_vars

SpecAlgo == Init /\ [][NextAlgo]_vars

SpecTrip == Init /\ [][NextTrip]_vars

SpecSeq == Init /\ [][NextSeq]_vars

SpecPop == Init /\ [][NextPop]_vars

SpecAtomic == InitKeyed /\ [][NextAtomic]_vars

SpecMap == InitKeyed /\ [][NextMap]_vars

SpecHash == InitHash /\ [][NextHash]_vars

\* ================================================================== claims
\* s is in the order of comparator c: no element goes before an earlier one.
Sorted(s, c) ==
    \A i \in 1 .. Len(s), j \in 1 .. Len(s) : i < j => ~ compare(c, s[j], s[i])

\* How often v occurs in s.
Count(s, v) == Cardinality({i \in 1 .. Len(s) : s[i] = v})

\* The merge of a and b that keeps equivalent elements in order, a's first.
RECURSIVE StableMerge(_, _, _)
StableMerge(a, b, c) ==
    IF a = <<>> THEN b
    ELSE IF b = <<>> THEN a
    ELSE IF compare(c, Head(b), Head(a))
         THEN <<Head(b)>> \o StableMerge(a, Tail(b), c)
         ELSE <<Head(a)>> \o StableMerge(Tail(a), b, c)

\* What a caller saw of list l before the last call was as a list should
\* be: the walk from begin() arrived at end() and size() was its length.
PreSound(l) == pre[l].closed /\ pre[l].size = Len(pre[l].seq)

\* C1: after every completed call of the node store that leaves begin() a
\* node, size() is the number of nodes walked by next() from begin() until
\* end().
C1_SizeIsWalkLength ==
    \A l \in Lists :
        (err = "none" /\ list[l].begin_ # null) =>
            Now(l).closed /\ list[l].size_ = Len(Now(l).nodes)

\* C2: after every completed call that leaves begin() a node, begin() is
\* end().next(), and begin() is end() exactly when the list is empty.
C2_BeginIsFirstNode ==
    \A l \in Lists :
        (err = "none" /\ list[l].begin_ # null) =>
            /\ list[l].begin_ = node[list[l].end_].next
            /\ (list[l].begin_ = list[l].end_) <=> (list[l].size_ = 0)

\* C3: after every completed call the chain is circular and doubly linked:
\* next() from end().next() comes back to end(), end().prev() is the last
\* node of that ring (end() itself if there is none), the first node's
\* prev() is end(), and n.next().prev() is n for every n of the ring.
C3_CircularChain ==
    \A l \in Lists :
        err = "none" =>
            LET e == list[l].end_
                ring == Chain(node, node[e].next, e, MaxNodes)
            IN /\ Arrives(node, node[e].next, e, MaxNodes)
               /\ node[e].prev = (IF ring = <<>> THEN e ELSE ring[Len(ring)])
               /\ node[node[e].next].prev = e
               /\ \A i \in 1 .. Len(ring) : node[node[ring[i]].next].prev = ring[i]

\* C4: pop_front() on a list that holds an element completes without error,
\* takes one off size(), and leaves the former sequence without its first
\* element.
C4_PopFront ==
    (call.op = "pop_front" /\ pre[call.l].size >= 1 /\ pre[call.l].seq # <<>>) =>
        /\ err = "none"
        /\ Now(call.l).closed
        /\ list[call.l].size_ = pre[call.l].size - 1
        /\ Now(call.l).seq = Tail(pre[call.l].seq)

\* C5: remove(val) and remove_if(pred) leave the former sequence without the
\* elements that match, the others in their order, and size() its length.
C5_Remove ==
    (call.op \in {"remove", "remove_if"}) =>
        LET keep(v) == IF call.op = "remove" THEN v # call.val ELSE ~ pred(call.sel, v)
        IN /\ err = "none"
           /\ Now(call.l).closed
           /\ Now(call.l).seq = SelectSeq(pre[call.l].seq, keep)
           /\ list[call.l].size_ = Len(Now(call.l).seq)

\* C6: A.merge(B, compare) of two distinct lists, each sorted under compare,
\* leaves A holding the elements of both, each once, in sorted order, and
\* leaves B empty.
C6_MergePost ==
    LET a == call.l
        b == call.obj
    IN /\ list[a].size_ = Len(Now(a).seq)
       /\ Now(a).closed
       /\ Sorted(Now(a).seq, call.sel)
       /\ \A v \in Vals :
            Count(Now(a).seq, v) = Count(pre[a].seq, v) + Count(pre[b].seq, v)
       /\ Now(b).seq = <<>>
       /\ Now(b).closed
       /\ list[b].size_ = 0

MergeOfSorted ==
    /\ call.op = "merge"
    /\ call.l # call.obj
    /\ PreSound(call.l) /\ PreSound(call.obj)
    /\ Sorted(pre[call.l].seq, call.sel)
    /\ Sorted(pre[call.obj].seq, call.sel)

C6_Merge == MergeOfSorted => (err = "none" /\ C6_MergePost)

\* C7: merge is stable: where the merge did produce a sorted sequence of the
\* elements of both lists, elements equivalent under compare keep their
\* order, those of the receiving list before the inbound ones.
C7_MergeStable ==
    (MergeOfSorted /\ err = "none" /\ C6_MergePost) =>
        Now(call.l).seq = StableMerge(pre[call.l].seq, pre[call.obj].seq, call.sel)

\* C8: a splice of one element that raises the foreign-handle error has
\* changed neither list: nodes, sequence, size(), begin() and end() are as
\* before the call.
C8_SpliceErrorNoChange ==
    (call.op = "splice_one" /\ err = "InvalidArgument") =>
        \A l \in Lists : Now(l) = pre[l]

\* C9: splice(position, this, first, last) with position = last, the range
\* being one of the receiving list, changes neither sequence nor size().
C9_SpliceSelfNoop ==
    (/\ call.op = "splice_range"
     /\ call.obj = call.l
     /\ call.pos = call.last
     /\ node[call.first].source = call.l
     /\ node[call.last].source = call.l
     /\ PreSound(call.l)) =>
        /\ err = "none"
        /\ Now(call.l).seq = pre[call.l].seq
        /\ list[call.l].size_ = pre[call.l].size

\* C10: splice(position, obj, it) between two distinct lists takes one off
\* obj.size(), adds one to the receiver's size(), and the element right
\* before position holds the value of the moved element.
C10_SpliceOne ==
    (/\ call.op = "splice_one"
     /\ call.obj # call.l
     /\ node[call.pos].source = call.l
     /\ node[call.first].source = call.obj) =>
        /\ err = "none"
        /\ list[call.obj].size_ = pre[call.obj].size - 1
        /\ list[call.l].size_ = pre[call.l].size + 1
        /\ node[call.pos].prev # null
        /\ node[node[call.pos].prev].value = node[call.first].value

\* The values held by the nodes of the range [first, last).
RangeVals(first, last) ==
    LET ns == Chain(node, first, last, MaxNodes)
    IN [i \in 1 .. Len(ns) |-> node[ns[i]].value]

\* The handles a caller held on list l before the last call: its elements.
PreElems(l) == {pre[l].nodes[i] : i \in 1 .. Len(pre[l].nodes)}

\* s without every element that p relates to the element kept before it.
RECURSIVE UniqueOf(_, _)
UniqueOf(s, p) ==
    IF Len(s) <= 1 THEN s
    ELSE LET u == UniqueOf(SubSeq(s, 1, Len(s) - 1), p)
             x == s[Len(s)]
         IN IF binary_pred(p, x, u[Len(u)]) THEN u ELSE Append(u, x)

\* The handle h is one of a list other than the one the last call was made on.
Foreign(h) == h # null /\ node[h].source # call.l

\* C11: splice moves the nodes themselves: after a completed
\* splice(position, obj, it) between two distinct lists, the handle it, an
\* element of obj before the call, is a node walked from the receiving
\* list's begin() to its end().
C11_SpliceMovesNodes ==
    (/\ call.op = "splice_one"
     /\ call.obj # call.l
     /\ call.first \in PreElems(call.obj)
     /\ err = "none") =>
        call.first \in Elems(call.l)

\* C12: an insert or erase call whose arguments are handles, the position
\* (or an end of the range to erase) being a handle of another list, raises the invalid-argument error and leaves both lists as they were:
\* nodes, sequence, size(), begin() and end().
C12_ForeignHandle ==
    (\/ call.op \in {"insert", "insert_fill", "insert_range", "erase"} /\ Foreign(call.pos)
     \/ /\ call.op = "erase_range"
        /\ call.first # null
        /\ Foreign(call.first) \/ Foreign(call.last)) =>
        /\ err = "InvalidArgument"
        /\ \A l \in Lists : Now(l) = pre[l]

C12_Witness ==
    /\ call.op = "erase"
    /\ Foreign(call.pos)
    /\ pre[call.l].seq # <<>>
    /\ err = "InvalidArgument"
    /\ \A l \in Lists : Now(l) = pre[l]

\* C13: erase(first, last) with both handles of the list, first an element
\* and last reached by next() from first, completes, takes the number of nodes of [first, last)
\* off size(), and returns last.
C13_EraseRange ==
    (/\ call.op = "erase_range"
     /\ ~ Foreign(call.first) /\ ~ Foreign(call.last)
     /\ call.first # call.last
     /\ Arrives(node, call.first, call.last, MaxNodes)) =>
        /\ err = "none"
        /\ list[call.l].size_ = pre[call.l].size - Len(RangeVals(call.first, call.last))
        /\ ret = call.last

\* C14: insert(position, first, last) with a range that is not empty, at any
\* position of the list, completes and leaves the former sequence with the
\* values of the range before position; size() grew by the length of the
\* range and the handle returned is the first node inserted.
C14_InsertRange ==
    (/\ call.op = "insert_range"
     /\ call.pos \in PreElems(call.l) \cup {pre[call.l].end}
     /\ call.first # call.last
     /\ PreSound(call.l) /\ PreSound(call.obj)) =>
        LET s == pre[call.l].seq
            ps == pre[call.l].nodes \o <<pre[call.l].end>>
            k == CHOOSE i \in 1 .. Len(ps) : ps[i] = call.pos
            r == RangeVals(call.first, call.last)
        IN /\ err = "none"
           /\ Now(call.l).closed
           /\ Now(call.l).seq = SubSeq(s, 1, k - 1) \o r \o SubSeq(s, k, Len(s))
           /\ list[call.l].size_ = pre[call.l].size + Len(r)
           /\ Len(Now(call.l).nodes) >= k
           /\ ret = Now(call.l).nodes[k]

\* C15: assign(first, last) with a range that is not empty, on a list that
\* holds elements, completes and leaves the list holding the values of the
\* range in order, size() being the length of the range.
C15_Assign ==
    (/\ call.op = "assign"
     /\ call.first # call.last
     /\ pre[call.l].size >= 1
     /\ PreSound(call.l) /\ PreSound(call.obj)) =>
        /\ err = "none"
        /\ Now(call.l).closed
        /\ Now(call.l).seq = RangeVals(call.first, call.last)
        /\ list[call.l].size_ = Len(RangeVals(call.first, call.last))

\* C16: sort(compare) on a list that holds elements completes and leaves the
\* former elements in the order of compare, equivalent elements in their
\* former order, and size() as it was.
C16_Sort ==
    (/\ call.op = "sort"
     /\ pre[call.l].seq # <<>>
     /\ PreSound(call.l)) =>
        /\ err = "none"
        /\ Now(call.l).closed
        /\ Now(call.l).seq = StableSort(pre[call.l].seq, call.sel)
        /\ list[call.l].size_ = pre[call.l].size

\* C17: unique(binary_pred) removes exactly the elements that binary_pred
\* relates to the element before them, whatever predicate is supplied.
C17_UniqueBy ==
    (/\ call.op = "unique_by"
     /\ PreSound(call.l)) =>
        /\ err = "none"
        /\ Now(call.l).seq = UniqueOf(pre[call.l].seq, call.sel)

\* C18: unique() on a list that can be walked from begin() to end() leaves
\* the first element of every run of equal elements, in order: no two
\* neighbours are equal and size() is the number of runs.
C18_Unique ==
    (/\ call.op = "unique"
     /\ pre[call.l].closed) =>
        /\ err = "none"
        /\ Now(call.l).closed
        /\ Now(call.l).seq = UniqueOf(pre[call.l].seq, "equals")
        /\ list[call.l].size_ = Len(Now(call.l).seq)

\* C19: round trip: the call that takes the last element off a list built by
\* push_back, push_front and insert (pop_front, pop_back or erase(begin()))
\* completes and leaves size() 0 and begin() equal to end().
C19_RoundTrip ==
    (/\ call.op \in {"pop_front", "pop_back", "erase"}
     /\ call.op = "erase" => call.pos = pre[call.l].begin
     /\ pre[call.l].size = 1) =>
        /\ err = "none"
        /\ list[call.l].size_ = 0
        /\ list[call.l].begin_ = list[call.l].end_

\* C20: new List(n, val) and assign(n, val) with n >= 1 leave a list with
\* begin() and end() defined that holds n elements, each of them val.
C20_Fill ==
    (/\ call.op \in {"new_fill", "assign_fill"}
     /\ call.n >= 1) =>
        /\ err = "none"
        /\ list[call.l].begin_ # null
        /\ list[call.l].end_ # null
        /\ list[call.l].size_ = call.n
        /\ Now(call.l).closed
        /\ Now(call.l).seq = [i \in 1 .. call.n |-> call.val]

\* ------------------------------------------------------- keyed containers
\* The keys of map m in iteration order, begin() to end().
KeysOf(m) == [i \in 1 .. Len(m.data) |-> m.elem[m.data[i]].first]

\* Key k is the key of an element of map m.
Present(m, k) == \E i \in 1 .. Len(m.data) : KeysOf(m)[i] = k

\* The first element of m in iteration order whose key is not less than k
\* (strict = FALSE) or goes after k (strict = TRUE); end() without one.
FirstFrom(m, k, strict) ==
    LET c == {i \in 1 .. Len(m.data) :
                 IF strict THEN less(k, KeysOf(m)[i]) ELSE ~ less(KeysOf(m)[i], k)}
    IN IF c = {} THEN EndIt
       ELSE m.data[CHOOSE i \in c : \A j \in c : i <= j]

\* The elements of m from handle a up to, not including, handle b.
Between(m, a, b) ==
    LET ia == IF a = EndIt THEN Len(m.data) + 1 ELSE IndexOf(m.data, a)
        ib == IF b = EndIt THEN Len(m.data) + 1 ELSE IndexOf(m.data, b)
    IN SubSeq(m.data, ia, ib - 1)

\* C21: whatever inserts and erases a TreeMap has gone through since it was
\* empty, iteration from begin() to end() meets the keys in strictly
\* increasing order, and meets the elements in the order of the in-order
\* traversal of the index tree.
C21_IterationOrdered ==
    /\ \A i \in 1 .. Len(tm.map.data), j \in 1 .. Len(tm.map.data) :
           i < j => less(KeysOf(tm.map)[i], KeysOf(tm.map)[j])
    /\ tm.map.data = InOrder(KeyOf(tm.map), tm.map.tree)

\* An erase took a map of three elements to two.
C21_Witness ==
    /\ tm.call.op = "erase"
    /\ Len(tm.pre.data) = 3
    /\ Len(tm.map.data) = 2

\* C22: insert of a pair whose key is present returns the existing element
\* and false and leaves the store, the mapped values and the tree as they
\* were; insert of an absent key returns the new element, holding the pair,
\* and true, and the size grows by one.
C22_InsertUnique ==
    tm.call.op = "insert" =>
        IF Present(tm.pre, tm.call.key)
        THEN /\ tm.ret.inserted = FALSE
             /\ tm.ret.it \in Items(tm.pre.data)
             /\ tm.pre.elem[tm.ret.it].first = tm.call.key
             /\ tm.map = tm.pre
        ELSE /\ tm.ret.inserted = TRUE
             /\ tm.ret.it \in Items(tm.map.data) \ Items(tm.pre.data)
             /\ tm.map.elem[tm.ret.it] = [first |-> tm.call.key, second |-> tm.call.val]
             /\ Len(tm.map.data) = Len(tm.pre.data) + 1

\* An insert of a present key with another mapped value than the one held.
C22_Witness ==
    /\ tm.call.op = "insert"
    /\ Present(tm.pre, tm.call.key)
    /\ tm.ret.it # EndIt
    /\ tm.map.elem[tm.ret.it].second # tm.call.val

\* C23: lowerBound(k) returns the first element in iteration order whose key
\* is not less than k, and end() when every key is less than k.
C23_LowerBound ==
    tm.call.op = "lowerBound" =>
        tm.ret.it = FirstFrom(tm.map, tm.call.key, FALSE)

\* lowerBound of an absent key that lies between two keys of the map.
C23_Witness ==
    /\ tm.call.op = "lowerBound"
    /\ ~ Present(tm.map, tm.call.key)
    /\ tm.ret.it # EndIt
    /\ \E i \in 1 .. Len(tm.map.data) : less(KeysOf(tm.map)[i], tm.call.key)

\* C24: upperBound(k) returns the first element in iteration order whose key
\* is strictly greater than k, and end() when no key is.
C24_UpperBound ==
    tm.call.op = "upperBound" =>
        tm.ret.it = FirstFrom(tm.map, tm.call.key, TRUE)

\* upperBound of a present key that has a greater key after it.
C24_Witness ==
    /\ tm.call.op = "upperBound"
    /\ Present(tm.map, tm.call.key)
    /\ tm.ret.it # EndIt

\* C25: equalRange(k) is [lowerBound(k), upperBound(k)): it holds the one
\* element with key k when k is present; when k is absent it is empty and
\* both ends are the first element whose key goes after k, or end().
C25_EqualRange ==
    tm.call.op = "equalRange" =>
        /\ tm.ret.it = FirstFrom(tm.map, tm.call.key, FALSE)
        /\ tm.ret.it2 = FirstFrom(tm.map, tm.call.key, TRUE)
        /\ IF Present(tm.map, tm.call.key)
           THEN /\ Len(Between(tm.map, tm.ret.it, tm.ret.it2)) = 1
                /\ tm.map.elem[tm.ret.it].first = tm.call.key
           ELSE /\ tm.ret.it = tm.ret.it2
                /\ Between(tm.map, tm.ret.it, tm.ret.it2) = << >>

\* equalRange of a present key that is not the last one.
C25_Witness ==
    /\ tm.call.op = "equalRange"
    /\ Present(tm.map, tm.call.key)
    /\ tm.ret.it2 # EndIt

\* C26: find(k) raises nothing; it returns an element with key k exactly
\* when the map holds one, and end() otherwise, on the empty map too.
C26_Find ==
    tm.call.op = "find" =>
        /\ tm.ret.err = "none"
        /\ IF Present(tm.map, tm.call.key)
           THEN /\ tm.ret.it \in Items(tm.map.data)
                /\ tm.map.elem[tm.ret.it].first = tm.call.key
           ELSE tm.ret.it = EndIt

\* find of an absent key on a map that holds other keys.
C26_Witness ==
    /\ tm.call.op = "find"
    /\ ~ Present(tm.map, tm.call.key)
    /\ Len(tm.map.data) >= 2

\* C27, as claimed: find by value returns the node whose value equals the
\* searched value when the tree holds one, and null when it holds none.
C27_FindOrNull ==
    at.op = "find" =>
        IF at.val \in Items(at.tree) THEN at.ret = at.val ELSE at.ret = null

\* C27, amended: find by value returns the node whose value equals the
\* searched value when the tree holds one; when it holds none it returns
\* null only for the empty tree, and otherwise the node the descent ended
\* at, whose value is next to the searched value in the order of the tree.
C27_FindNearest ==
    at.op = "find" =>
        IF at.val \in Items(at.tree) THEN at.ret = at.val
        ELSE IF at.tree = << >> THEN at.ret = null
        ELSE /\ at.ret \in Items(at.tree)
             /\ \A v \in Items(at.tree) :
                    ~ (less(at.ret, v) /\ less(v, at.val))
                    /\ ~ (less(at.val, v) /\ less(v, at.ret))

\* A search for a value the tree does not hold, in a tree of three nodes.
C27_Witness ==
    /\ at.op = "find"
    /\ at.val \notin Items(at.tree)
    /\ Len(at.tree) >= 3

\* The handles held in the buckets of the UnorderedMultiMap.
Registered == UNION {Items(um.hashGroup[b]) : b \in 1 .. Len(um.hashGroup)}

\* C28: every insert of a pair into an UnorderedMultiMap runs to completion,
\* whatever MIN_SIZE, RATIO, the number of buckets and of elements are: the
\* calls between handleInsert and reconstructHashGroup come to an end.
C28_InsertCompletes ==
    um.op = "insert" => um.err = "none"

\* C29: after any sequence of insert, range insert, erase and clear the
\* handles held in the buckets are the live elements of the store, and each
\* is held in the bucket hashIndex gives for its key, elements with the
\* same key included.  Stated for MIN_SIZE up to 2, where every insert
\* completes.
C29_BucketsHoldLive ==
    um.MIN_SIZE <= 2 =>
        /\ Registered = Items(um.data)
        /\ \A b \in 1 .. Len(um.hashGroup) :
               \A i \in 1 .. Len(um.hashGroup[b]) :
                   b = UMap_hashIndex(um, um.key[um.hashGroup[b][i]]) + 1

\* C30: find(k) returns end() or a live element whose key is k, never an
\* erased one, and a live one whenever a live element has key k.  Stated
\* for MIN_SIZE up to 2, where every insert completes.
C30_FindLive ==
    (um.op = "find" /\ um.MIN_SIZE <= 2) =>
        /\ um.ret # EndIt => (um.ret \in Items(um.data) /\ um.key[um.ret] = um.arg)
        /\ (\E it \in Items(um.data) : um.key[it] = um.arg) => um.ret # EndIt

\* C31: the bucket table is never too small for its load: after any
\* sequence of inserts, one pair at a time from MIN_SIZE buckets included,
\* size() <= 2 * the number of buckets.
C31_LoadBounded ==
    Len(um.data) <= 2 * Len(um.hashGroup)

\* C32: after a call that ran reconstructHashGroup, from a batch insert or
\* from the shrink check, every live key k is found: find(k) is a live
\* element with key k.
C32_FoundAfterRehash ==
    um.rehash =>
        \A it \in Items(um.data) :
            /\ UMap_find(um, um.key[it]) \in Items(um.data)
            /\ um.key[UMap_find(um, um.key[it])] = um.key[it]

\* C33: in every state of an UnorderedMultiMap, after construction, insert,
\* range insert, erase, assign, clear and any rehash, the number of buckets
\* is at least MIN_SIZE.
C33_MinBuckets ==
    Len(um.hashGroup) >= um.MIN_SIZE

\* A rehash that left more buckets than MIN_SIZE.
C33_Witness ==
    /\ um.rehash
    /\ um.err = "none"
    /\ Len(um.hashGroup) > um.MIN_SIZE

\* How many entries of the buckets are the handle it.
Entries(it) ==
    Cardinality({<<b, i>> \in (1 .. Len(um.hashGroup)) \X (1 .. MaxInserts * MaxStack) :
                    i <= Len(um.hashGroup[b]) /\ um.hashGroup[b][i] = it})

\* C35: no element is registered twice: after an insert, one that runs
\* reconstructHashGroup while the new element is in the store included, no
\* handle has two entries in the buckets.
C35_RegisteredOnce ==
    \A it \in 1 .. um.n : Entries(it) <= 1

\* The handle at index j of map m, index Len(m.data) being end().
HandleAt(m, j) == IF j < Len(m.data) THEN m.data[j + 1] ELSE EndIt

\* C34: advance(n) on the handle at index i of a container of s elements
\* (index s being end()) returns the handle at index i + n when
\* 0 <= i + n <= s, for n >= 0 and n < 0 alike, and end() otherwise.
C34_Advance ==
    tm.call.op = "advance" =>
        LET s == Len(tm.map.data)
            i == IF tm.call.it = EndIt THEN s ELSE IndexOf(tm.map.data, tm.call.it) - 1
            j == i + tm.call.n
        IN tm.ret.it = IF 0 <= j /\ j <= s THEN HandleAt(tm.map, j) ELSE EndIt

\* The subtree of t that node x roots.
RECURSIVE SubTree(_, _)
SubTree(t, x) ==
    IF Head(t) = x THEN t
    ELSE IF less(x, Head(t)) THEN SubTree(TreeLeft(Self, t), x)
    ELSE SubTree(TreeRight(Self, t), x)

\* C40: findByVal returns (it terminates) and returns null only for an
\* empty tree; on a tree that holds no equal element it returns a node with
\* no child on the side the searched value lies, the end of the descent,
\* which is the greatest smaller value or the least greater value of the
\* tree.
C40_DescentEnd ==
    at.op = "find" =>
        /\ at.ret = null <=> at.tree = << >>
        /\ (at.tree # << >> /\ at.val \notin Items(at.tree)) =>
               /\ at.ret \in Items(at.tree)
               /\ IF less(at.val, at.ret)
                  THEN /\ TreeLeft(Self, SubTree(at.tree, at.ret)) = << >>
                       /\ \A v \in Items(at.tree) : less(at.val, v) => ~ less(v, at.ret)
                  ELSE /\ TreeRight(Self, SubTree(at.tree, at.ret)) = << >>
                       /\ \A v \in Items(at.tree) : less(v, at.val) => ~ less(at.ret, v)

\* A search that ended below the root, at the greatest smaller value.
C40_Witness ==
    /\ at.op = "find"
    /\ at.val \notin Items(at.tree)
    /\ at.tree # << >>
    /\ at.ret # Head(at.tree)
    /\ less(at.ret, at.val)

\* C36: every node reached from begin() of a list reports that list as its
\* source, after swap too; so erase and insert at a handle reached from
\* begin() of the list they are called on raise no foreign-handle error.
C36_SourceAfterSwap ==
    /\ \A l \in Lists :
           err = "none" => \A h \in Elems(l) : node[h].source = l
    /\ (call.op \in {"erase", "insert"} /\ call.pos \in Items(pre[call.l].nodes)) =>
           err # "InvalidArgument"

\* C37: a handle obtained from end() stays equal to end() through every
\* later push_front, push_back, insert and erase that completes,
\* push_front on an empty list included.
C37_SentinelStable ==
    (call.op \in {"push_front", "push_back", "insert", "erase"} /\ err = "none") =>
        list[call.l].end_ = pre[call.l].end

\* C38: pop_front() and pop_back() on a list with size() 0 leave size() 0
\* and the list empty, begin() equal to end().
C38_PopOfEmpty ==
    (call.op \in {"pop_front", "pop_back"} /\ pre[call.l].size = 0) =>
        /\ list[call.l].size_ = 0
        /\ list[call.l].begin_ = list[call.l].end_

\* C39: assign(first, last) returns for every range, the empty range
\* (first and last the same handle) included, and after the empty range
\* the list is empty with size() 0.
C39_AssignTerminates ==
    call.op = "assign" =>
        /\ err # "hang"
        /\ call.first = call.last =>
               /\ err = "none"
               /\ list[call.l].size_ = 0
               /\ Now(call.l).seq = << >>

====
